---- MODULE Spec2Model ----
(***************************************************************************)
(* Model of stock_screener_raw.py: the ticker parser, the SEC filing       *)
(* lookup, the Yahoo Finance snapshot fetcher, the per-ticker fetch loop    *)
(* and the summary statistics.                                              *)
(*                                                                          *)
(* Python strings are TLA+ strings; a character is a string of length 1.    *)
(* The emoji that open the status literals are written in ASCII: "OK" for   *)
(* the check mark, "X" for the cross and "!" for the warning sign.          *)
(***************************************************************************)
EXTENDS Integers, Sequences, FiniteSets, TLC

\* Longest text typed in the text area when the parser is explored.
MaxLen == 5

\* Characters of the explored texts: letters of both cases, the two
\* separators and a blank.
Alphabet == {"a", "A", "b", " ", ",", "\n"}

\* None is the empty tuple and a present value v is <<v>>, so that a nullable
\* field always holds a tuple.
NoneV == <<>>

Some(v) == <<v>>

\* str(x) of a nullable string
Str(o) == IF o = NoneV THEN "None" ELSE o[1]

\* Python truthiness of a nullable number
Truthy(o) == o # NoneV /\ o[1] # 0

Min(a, b) == IF a < b THEN a ELSE b

SeqToSet(s) == {s[i] : i \in 1..Len(s)}

\* list(set(xs)): every iteration order of the set is possible.
Orderings(S) ==
  {f \in [1..Cardinality(S) -> S] : \A i, j \in 1..Cardinality(S) : f[i] = f[j] => i = j}

(***************************************************************************)
(* Python str operations                                                    *)
(***************************************************************************)
Char(s, i) == SubSeq(s, i, i)

Tail_(s) == SubSeq(s, 2, Len(s))

Init_(s) == SubSeq(s, 1, Len(s) - 1)

IsSpace(c) == c \in {" ", "\n", "\t", "\r"}

RECURSIVE LStrip(_)
LStrip(s) ==
  IF Len(s) = 0 THEN s
  ELSE IF IsSpace(Char(s, 1)) THEN LStrip(Tail_(s)) ELSE s

RECURSIVE RStrip(_)
RStrip(s) ==
  IF Len(s) = 0 THEN s
  ELSE IF IsSpace(Char(s, Len(s))) THEN RStrip(Init_(s)) ELSE s

\* str.strip()
Strip(s) == RStrip(LStrip(s))

UpperChar(c) ==
  CASE c = "a" -> "A"
    [] c = "b" -> "B"
    [] OTHER -> c

\* str.upper()
RECURSIVE Upper(_)
Upper(s) ==
  IF Len(s) = 0 THEN s ELSE UpperChar(Char(s, 1)) \o Upper(Tail_(s))

\* str.split(sep) for a one-character separator
RECURSIVE SplitFrom(_, _, _)
SplitFrom(s, sep, acc) ==
  IF Len(s) = 0 THEN <<acc>>
  ELSE IF Char(s, 1) = sep THEN <<acc>> \o SplitFrom(Tail_(s), sep, "")
  ELSE SplitFrom(Tail_(s), sep, acc \o Char(s, 1))

Split(s, sep) == SplitFrom(s, sep, "")

\* s[:n]
Truncate(s, n) == SubSeq(s, 1, Min(n, Len(s)))

RECURSIVE Repeat(_, _)
Repeat(c, n) == IF n = 0 THEN "" ELSE c \o Repeat(c, n - 1)

(***************************************************************************)
(* Ticker parser (lines 249-259)                                            *)
(***************************************************************************)
RECURSIVE NonEmpty(_)
NonEmpty(ts) ==
  IF ts = <<>> THEN <<>>
  ELSE IF Len(Head(ts)) = 0 THEN NonEmpty(Tail(ts))
  ELSE <<Head(ts)>> \o NonEmpty(Tail(ts))

\* The mutated line comprehension: tokens are uppercased but not trimmed.
LineTickersNoStrip(line) ==
  LET parts == Split(line, ",")
  IN  [i \in 1..Len(parts) |-> Upper(parts[i])]

\* line_tickers = [t.strip().upper() for t in line.split(',')]
LineTickers(line) ==
  LET parts == Split(line, ",")
  IN  [i \in 1..Len(parts) |-> Upper(Strip(parts[i]))]

RECURSIVE ExtendAll(_)
ExtendAll(lines) ==
  IF lines = <<>> THEN <<>>
  ELSE NonEmpty(LineTickers(Head(lines))) \o ExtendAll(Tail(lines))

\* The list `tickers` before list(set(tickers)).
ParseList(text) ==
  IF Len(text) = 0 THEN <<>>
  ELSE ExtendAll(Split(Strip(text), "\n"))

\* The possible values of `tickers` after list(set(tickers)).
ParseTickers(text) == Orderings(SeqToSet(ParseList(text)))


RECURSIVE TextsOfLen(_)
TextsOfLen(n) ==
  IF n = 0 THEN {""}
  ELSE {t \o c : t \in TextsOfLen(n - 1), c \in Alphabet}

\* Every text of at most MaxLen characters.
Texts == UNION {TextsOfLen(n) : n \in 0..MaxLen}

\* The texts the fetch runs start from: empty, separators only, one ticker,
\* two tickers with a duplicate.
RunInputs == {"", " ,\n ", "a", "a, b\nA"}

(***************************************************************************)
(* Exceptions                                                               *)
(***************************************************************************)
\* str(e)[:30] in get_sec_filings_metadata
SecMsgLimit == 30

\* str(e)[:50] in get_sec_financial_data
OuterMsgLimit == 50

\* Longest exception message of a transport or decoding failure.
MaxMsgLen == 60

\* Messages of the exceptions the providers' libraries raise: one exactly at
\* the truncation limit and one beyond every limit.
ExcMessages == {Repeat("e", SecMsgLimit), Repeat("e", MaxMsgLen)}

\* pandas' message for hist['Close'].iloc[-1] on an empty frame
IndexErrorMsg == "single positional indexer is out-of-bounds"

(***************************************************************************)
(* SEC EDGAR filing lookup (lines 30-47)                                    *)
(***************************************************************************)
SecFound == "OK Found"

SecNotFound == "X Not Found"

SecErrorPrefix == "! Error: "

HttpOk == 200

\* A filing entry of the registry's JSON: its filingDate and accessionNumber
\* keys, NoneV when the key is missing.
FilingEntries ==
  [filingDate : {NoneV, Some("2024-11-01")},
   accessionNumber : {NoneV, Some("0000320193-24-000123")}]

OlderEntry == [filingDate |-> Some("2023-11-03"), accessionNumber |-> Some("0000320193-23-000106")]

\* What requests.get(url, timeout=10) followed by response.json() can do:
\*   raises     message of the exception requests.get raised, or NoneV
\*   status_code
\*   bad_body   message of the exception raised while decoding or reading
\*              the body (not JSON, 'filings' not a dict), or NoneV
\*   has_key    'filings' in data
\*   filings    data['filings'].get('filings'), <<>> when missing or empty
SecResponse(raises, code, bad, key, filings) ==
  [raises |-> raises, status_code |-> code, bad_body |-> bad, has_key |-> key,
   filings |-> filings]

SecResponses ==
  {SecResponse(Some(m), 0, NoneV, FALSE, <<>>) : m \in ExcMessages}
  \cup {SecResponse(NoneV, 503, NoneV, FALSE, <<>>)}
  \cup {SecResponse(NoneV, HttpOk, Some(m), FALSE, <<>>) : m \in ExcMessages}
  \cup {SecResponse(NoneV, HttpOk, NoneV, k, <<>>) : k \in BOOLEAN}
  \cup {SecResponse(NoneV, HttpOk, NoneV, TRUE, <<e>>) : e \in FilingEntries}
  \cup {SecResponse(NoneV, HttpOk, NoneV, TRUE, <<e, OlderEntry>>) : e \in FilingEntries}

FilingMeta(date, acc, status) ==
  [filing_date |-> date, accession_number |-> acc, status |-> status]

\* The mutated lookup: the filing is read from the last entry of the list.
get_sec_filings_metadata_last(response) ==
  IF response.raises # NoneV
  THEN FilingMeta(NoneV, NoneV, SecErrorPrefix \o Truncate(response.raises[1], SecMsgLimit))
  ELSE IF response.status_code = HttpOk /\ response.bad_body # NoneV
  THEN FilingMeta(NoneV, NoneV, SecErrorPrefix \o Truncate(response.bad_body[1], SecMsgLimit))
  ELSE IF response.status_code = HttpOk /\ response.has_key /\ response.filings # <<>>
  THEN LET filing == response.filings[Len(response.filings)]
       IN  FilingMeta(filing.filingDate, filing.accessionNumber, SecFound)
  ELSE FilingMeta(NoneV, NoneV, SecNotFound)

get_sec_filings_metadata(response) ==
  IF response.raises # NoneV
  THEN FilingMeta(NoneV, NoneV, SecErrorPrefix \o Truncate(response.raises[1], SecMsgLimit))
  ELSE IF response.status_code = HttpOk /\ response.bad_body # NoneV
  THEN FilingMeta(NoneV, NoneV, SecErrorPrefix \o Truncate(response.bad_body[1], SecMsgLimit))
  ELSE IF response.status_code = HttpOk /\ response.has_key /\ response.filings # <<>>
  THEN LET filing == response.filings[1]
       IN  FilingMeta(filing.filingDate, filing.accessionNumber, SecFound)
  ELSE FilingMeta(NoneV, NoneV, SecNotFound)

(***************************************************************************)
(* SEC financial data (lines 49-130)                                        *)
(***************************************************************************)
\* The statement fields of raw_data, in the order of the dictionary literal.
SecStatementFields ==
  <<"total_assets", "total_liabilities", "total_equity", "total_debt_short_term",
    "total_debt_long_term", "cash",
    "revenue", "revenue_prior_year", "cogs", "gross_profit", "net_income",
    "net_income_prior_year", "eps_current", "eps_prior_year",
    "operating_cash_flow", "capex", "net_debt_issued", "interest_paid">>

SecFields == SeqToSet(SecStatementFields) \cup {"filing_date", "sec_status"}

\* The ticker-to-CIK request: raises or not, status code, and
\* resp.json()['cik_str'] (NoneV when the body or the key is missing, which
\* raises inside the try).
CikResponses ==
  [raises : {TRUE}, status_code : {0}, cik_str : {NoneV}]
  \cup [raises : {FALSE}, status_code : {404}, cik_str : {NoneV}]
  \cup [raises : {FALSE}, status_code : {HttpOk}, cik_str : {NoneV, Some(0), Some(320193)}]

\* The company-facts request: raises or not, status code, whether the body
\* decodes, whether it has units.USD, and the 'val' of each USD entry.
FactsResponses ==
  [raises : {TRUE}, status_code : {0}, bad_body : {FALSE}, has_usd : {FALSE}, vals : {<<>>}]
  \cup [raises : {FALSE}, status_code : {404}, bad_body : {FALSE}, has_usd : {FALSE}, vals : {<<>>}]
  \cup [raises : {FALSE}, status_code : {HttpOk}, bad_body : {TRUE}, has_usd : {FALSE}, vals : {<<>>}]
  \cup [raises : {FALSE}, status_code : {HttpOk}, bad_body : {FALSE}, has_usd : {FALSE}, vals : {<<>>}]
  \cup [raises : {FALSE}, status_code : {HttpOk}, bad_body : {FALSE}, has_usd : {TRUE},
        vals : {<<>>, <<Some(3), Some(5)>>, <<Some(3), NoneV>>}]

\* cik after the "Try to get CIK" block (the caller passes cik=None).
ResolveCik(cikResp) ==
  IF ~cikResp.raises /\ cikResp.status_code = HttpOk /\ cikResp.cik_str # NoneV
  THEN cikResp.cik_str
  ELSE NoneV

\* raw_data['total_assets'] after the "Fetch 10-K data" block.
TotalAssets(cik, factsResp) ==
  IF Truthy(cik) /\ ~factsResp.raises /\ factsResp.status_code = HttpOk
     /\ ~factsResp.bad_body /\ factsResp.has_usd /\ factsResp.vals # <<>>
  THEN factsResp.vals[Len(factsResp.vals)]
  ELSE NoneV

SecRawData(date, status, assets) ==
  [f \in SecFields |->
     CASE f = "filing_date" -> date
       [] f = "sec_status" -> status
       [] f = "total_assets" -> assets
       [] OTHER -> NoneV]

\* The mutated extraction: the latest value is also stored as total_liabilities.
get_sec_financial_data_more(response, cikResp, factsResp) ==
  LET filing_meta == get_sec_filings_metadata(response)
      assets == TotalAssets(ResolveCik(cikResp), factsResp)
  IN  IF filing_meta.status # SecFound
      THEN SecRawData(filing_meta.filing_date, filing_meta.status, NoneV)
      ELSE [SecRawData(filing_meta.filing_date,
                       filing_meta.status \o " | Filing: " \o Str(filing_meta.filing_date),
                       assets) EXCEPT !["total_liabilities"] = assets]

get_sec_financial_data(response, cikResp, factsResp) ==
  LET filing_meta == get_sec_filings_metadata(response)
  IN  IF filing_meta.status # SecFound
      THEN SecRawData(filing_meta.filing_date, filing_meta.status, NoneV)
      ELSE SecRawData(filing_meta.filing_date,
                      filing_meta.status \o " | Filing: " \o Str(filing_meta.filing_date),
                      TotalAssets(ResolveCik(cikResp), factsResp))

\* HTTP requests get_sec_financial_data issues.
SecRequests(response, cikResp) ==
  IF get_sec_filings_metadata(response).status # SecFound THEN 1
  ELSE IF Truthy(ResolveCik(cikResp)) THEN 3 ELSE 2

(***************************************************************************)
(* Yahoo Finance snapshot (lines 136-227)                                   *)
(***************************************************************************)
YahooSuccess == "OK Success"

YahooErrorPrefix == "X Error: "

\* raw_data field and the key of stock.info it is copied from, in the order
\* of the assignments; current_price is computed apart.
YahooInfoMap ==
  <<<<"market_cap", "marketCap">>, <<"shares_outstanding", "sharesOutstanding">>,
    <<"trailing_pe", "trailingPE">>, <<"eps_ttm", "trailingEps">>,
    <<"eps_trailing", "epsTrailingTwelveMonths">>, <<"dividend_yield", "dividendYield">>,
    <<"book_value", "bookValue">>, <<"pb_ratio", "priceToBook">>,
    <<"gross_margin", "grossMargins">>, <<"net_margin", "profitMargins">>,
    <<"roa", "returnOnAssets">>, <<"roe", "returnOnEquity">>,
    <<"revenue_ttm", "totalRevenue">>, <<"net_income_ttm", "netIncomeToCommon">>,
    <<"total_debt", "totalDebt">>, <<"net_debt", "netDebtToEbitda">>,
    <<"debt_to_equity", "debtToEquity">>,
    <<"price_52w_high", "fiftyTwoWeekHigh">>, <<"price_52w_low", "fiftyTwoWeekLow">>,
    <<"avg_volume", "averageVolume">>>>

YahooInfoFields == {YahooInfoMap[i][1] : i \in 1..Len(YahooInfoMap)}

InfoKeyOf(f) == (CHOOSE i \in 1..Len(YahooInfoMap) : YahooInfoMap[i][1] = f)

\* Every data field of raw_data; 'status' is the remaining key.
YahooDataFields ==
  {"current_price"} \cup YahooInfoFields \cup {"daily_closes", "historical_data"}

YahooFields == YahooDataFields \cup {"status"}

InfoKeys == {"currentPrice"} \cup {YahooInfoMap[i][2] : i \in 1..Len(YahooInfoMap)}

\* stock.info as the provider can return it: every key, every key but the
\* live quote, or no key at all (an unknown symbol).
FullInfo == [k \in InfoKeys |-> IF k = "currentPrice" THEN 150 ELSE 7]

NoQuoteInfo == [k \in InfoKeys \ {"currentPrice"} |-> 7]

EmptyInfo == [k \in {} |-> 7]

Infos == {FullInfo, NoQuoteInfo, EmptyInfo}

\* stock.history(period="1y"): the daily closes, oldest first.
Histories == {<<>>, <<148, 149>>}

\* What yf.Ticker(ticker).info and .history(period="1y") can do: each raises
\* (the message, or NoneV) or returns.
YahooResponses ==
  [info_raises : {Some(m) : m \in ExcMessages}, info : {EmptyInfo},
   hist_raises : {NoneV}, hist : {<<>>}]
  \cup [info_raises : {NoneV}, info : Infos,
        hist_raises : {Some(m) : m \in ExcMessages}, hist : {<<>>}]
  \cup [info_raises : {NoneV}, info : Infos, hist_raises : {NoneV}, hist : Histories]

\* dict.get(key)
Get(d, k) == IF k \in DOMAIN d THEN Some(d[k]) ELSE NoneV

\* The exception raised inside the try block, as str(e), or NoneV. Each of
\* the three raising statements precedes the first assignment to raw_data.
YahooRaises(response) ==
  IF response.info_raises # NoneV THEN response.info_raises
  ELSE IF response.hist_raises # NoneV THEN response.hist_raises
  ELSE IF ~Truthy(Get(response.info, "currentPrice")) /\ response.hist = <<>>
  THEN Some(IndexErrorMsg)
  ELSE NoneV

YahooFailure(msg) ==
  [f \in YahooFields |-> IF f = "status" THEN YahooErrorPrefix \o msg ELSE NoneV]

YahooPopulated(response) ==
  [f \in YahooFields |->
     CASE f = "status" -> YahooSuccess
       [] f = "current_price" ->
            IF Truthy(Get(response.info, "currentPrice"))
            THEN Get(response.info, "currentPrice")
            ELSE Some(response.hist[Len(response.hist)])
       [] f \in {"daily_closes", "historical_data"} ->
            IF response.hist # <<>> THEN Some(response.hist) ELSE NoneV
       [] OTHER -> Get(response.info, YahooInfoMap[InfoKeyOf(f)][2])]

\* The mutated fetcher: the fields are assigned before the history is read,
\* so a failure of the history leaves them populated.
get_yahoo_finance_data_partial(response) ==
  IF YahooRaises(response) = NoneV THEN YahooPopulated(response)
  ELSE IF response.info_raises # NoneV THEN YahooFailure(YahooRaises(response)[1])
  ELSE [f \in YahooFields |->
          IF f \in YahooInfoFields
          THEN Get(response.info, YahooInfoMap[InfoKeyOf(f)][2])
          ELSE YahooFailure(YahooRaises(response)[1])[f]]

get_yahoo_finance_data(response) ==
  IF YahooRaises(response) # NoneV
  THEN YahooFailure(YahooRaises(response)[1])
  ELSE YahooPopulated(response)

\* Requests to the market-data provider: info, then history unless info raised.
YahooRequests(response) == IF response.info_raises # NoneV THEN 1 ELSE 2

(***************************************************************************)
(* Row assembly (lines 291-356)                                             *)
(***************************************************************************)
\* Column and the sec_data field it is copied from.
SecColumnMap ==
  <<<<"SEC_Total_Assets", "total_assets">>, <<"SEC_Total_Liabilities", "total_liabilities">>,
    <<"SEC_Total_Equity", "total_equity">>, <<"SEC_Total_Debt_ST", "total_debt_short_term">>,
    <<"SEC_Total_Debt_LT", "total_debt_long_term">>, <<"SEC_Cash", "cash">>,
    <<"SEC_Revenue_Current", "revenue">>, <<"SEC_Revenue_Prior", "revenue_prior_year">>,
    <<"SEC_COGS", "cogs">>, <<"SEC_Gross_Profit", "gross_profit">>,
    <<"SEC_Net_Income_Current", "net_income">>, <<"SEC_Net_Income_Prior", "net_income_prior_year">>,
    <<"SEC_EPS_Current", "eps_current">>, <<"SEC_EPS_Prior", "eps_prior_year">>,
    <<"SEC_Operating_CF", "operating_cash_flow">>, <<"SEC_CapEx", "capex">>,
    <<"SEC_Net_Debt_Issued", "net_debt_issued">>, <<"SEC_Interest_Paid", "interest_paid">>>>

\* Column and the yahoo_data field it is copied from.
YahooColumnMap ==
  <<<<"Yahoo_Price", "current_price">>,
    <<"Yahoo_Market_Cap", "market_cap">>, <<"Yahoo_Shares_Out", "shares_outstanding">>,
    <<"Yahoo_P/E_Trailing", "trailing_pe">>, <<"Yahoo_EPS_TTM", "eps_ttm">>,
    <<"Yahoo_EPS_Trailing", "eps_trailing">>, <<"Yahoo_Dividend_Yield", "dividend_yield">>,
    <<"Yahoo_Book_Value", "book_value">>, <<"Yahoo_P/B", "pb_ratio">>,
    <<"Yahoo_Gross_Margin", "gross_margin">>, <<"Yahoo_Net_Margin", "net_margin">>,
    <<"Yahoo_ROA", "roa">>, <<"Yahoo_ROE", "roe">>,
    <<"Yahoo_Revenue_TTM", "revenue_ttm">>, <<"Yahoo_Net_Income_TTM", "net_income_ttm">>,
    <<"Yahoo_Total_Debt", "total_debt">>, <<"Yahoo_Net_Debt", "net_debt">>,
    <<"Yahoo_D/E_Ratio", "debt_to_equity">>,
    <<"Yahoo_52W_High", "price_52w_high">>, <<"Yahoo_52W_Low", "price_52w_low">>,
    <<"Yahoo_Avg_Volume", "avg_volume">>>>

SecColumns == {SecColumnMap[i][1] : i \in 1..Len(SecColumnMap)}

YahooColumns == {YahooColumnMap[i][1] : i \in 1..Len(YahooColumnMap)}

Columns ==
  {"Ticker", "SEC_Filing_Date", "SEC_Status", "Yahoo_Status", "Yahoo_Daily_Closes_Available"}
  \cup SecColumns \cup YahooColumns

FieldOf(map, c) == map[CHOOSE i \in 1..Len(map) : map[i][1] = c][2]

raw_entry(ticker, sec_data_, yahoo_data_) ==
  [c \in Columns |->
     CASE c = "Ticker" -> ticker
       [] c = "SEC_Filing_Date" -> sec_data_["filing_date"]
       [] c = "SEC_Status" -> sec_data_["sec_status"]
       [] c = "Yahoo_Status" -> yahoo_data_["status"]
       [] c = "Yahoo_Daily_Closes_Available" -> yahoo_data_["daily_closes"] # NoneV
       [] c \in SecColumns -> sec_data_[FieldOf(SecColumnMap, c)]
       [] c \in YahooColumns -> yahoo_data_[FieldOf(YahooColumnMap, c)]]

(***************************************************************************)
(* Summary statistics (lines 372-385)                                       *)
(***************************************************************************)
\* df_raw[df_raw['Ticker']==ticker][column].values[0]
CellOf(df, ticker, column) ==
  df[CHOOSE i \in 1..Len(df) :
       /\ df[i]["Ticker"] = ticker
       /\ \A j \in 1..(i - 1) : df[j]["Ticker"] # ticker][column]

\* sum(1 for ticker in tickers if <cell of ticker> == sentinel)
CountAvailable(df, ts, column, sentinel) ==
  Cardinality({i \in 1..Len(ts) : CellOf(df, ts[i], column) = sentinel})

(***************************************************************************)
(* CSV export (line 389)                                                    *)
(***************************************************************************)
\* df_raw.to_csv(index=False): the header line, then one line per row.
to_csv(df) == <<Columns>> \o df

(***************************************************************************)
(* The page: state and handlers (lines 242-399)                             *)
(***************************************************************************)
VARIABLES
  stock_list,      \* the text of the text area
  tickers,         \* the parsed ticker list
  pc,              \* position of the script
  idx,             \* 1-based position of the fetch loop
  progress,        \* the progress bar: NoneV, or Some([num, den]) showing num/den
  sec_response,    \* the registry's answer to the last filing lookup
  sec_data,        \* sec_data of the current iteration
  yahoo_response,  \* the market-data provider's answer to the last fetch
  yahoo_data,      \* yahoo_data of the current iteration
  all_raw_data,    \* the rows collected so far
  df_raw,          \* the displayed table, NoneV when none is displayed
  metrics,         \* the three displayed counts, NoneV when none are displayed
  csv,             \* the CSV offered for download, NoneV when none is offered
  error,           \* the st.error shown: "none", "input" or "no_data"
  requests_made,   \* HTTP requests issued to the two providers
  sec_calls,       \* per processed ticker: what the filing lookup and get_sec_financial_data returned
  yahoo_calls      \* per processed ticker: what get_yahoo_finance_data raised inside and returned

vars ==
  <<stock_list, tickers, pc, idx, progress, sec_response, sec_data, yahoo_response,
    yahoo_data, all_raw_data, df_raw, metrics, csv, error, requests_made, sec_calls,
    yahoo_calls>>

runVars ==
  <<idx, progress, sec_response, sec_data, yahoo_response, yahoo_data, all_raw_data,
    df_raw, metrics, csv, error, requests_made, sec_calls, yahoo_calls>>

InitWith(texts) ==
  /\ stock_list \in texts
  /\ tickers = <<>>
  /\ pc = "input"
  /\ idx = 0
  /\ progress = NoneV
  /\ sec_response = NoneV
  /\ sec_data = NoneV
  /\ yahoo_response = NoneV
  /\ yahoo_data = NoneV
  /\ all_raw_data = <<>>
  /\ df_raw = NoneV
  /\ metrics = NoneV
  /\ csv = NoneV
  /\ error = "none"
  /\ requests_made = 0
  /\ sec_calls = <<>>
  /\ yahoo_calls = <<>>

Init == InitWith(RunInputs)

InitParse == InitWith(Texts)

\* Lines 249-261: the text of the text area is parsed.
ParseInput ==
  /\ pc = "input"
  /\ tickers' \in ParseTickers(stock_list)
  /\ pc' = "idle"
  /\ UNCHANGED <<stock_list, runVars>>

\* The mutated guard: an empty list is let through.
NoTickersNever(ts) == FALSE

\* `not tickers`
NoTickers(ts) == ts = <<>>

\* Lines 268-275: the button is pressed.
ClickFetch ==
  /\ pc = "idle"
  /\ IF NoTickers(tickers)
     THEN /\ error' = "input"
          /\ pc' = "done"
          /\ UNCHANGED <<idx, progress, all_raw_data>>
     ELSE /\ progress' = Some([num |-> 0, den |-> 1])
          /\ all_raw_data' = <<>>
          /\ idx' = 1
          /\ pc' = "loop"
          /\ UNCHANGED error
  /\ UNCHANGED <<stock_list, tickers, sec_response, sec_data, yahoo_response, yahoo_data,
                 df_raw, metrics, csv, requests_made, sec_calls, yahoo_calls>>

\* Lines 277-282: the loop takes the next ticker and sets the progress bar.
UpdateProgress ==
  /\ pc = "loop"
  /\ idx <= Len(tickers)
  /\ progress' = Some([num |-> idx, den |-> Len(tickers)])
  /\ pc' = "sec"
  /\ UNCHANGED <<stock_list, tickers, idx, sec_response, sec_data, yahoo_response,
                 yahoo_data, all_raw_data, df_raw, metrics, csv, error, requests_made,
                 sec_calls, yahoo_calls>>

\* Line 285: sec_data = get_sec_financial_data(ticker)
FetchSEC ==
  /\ pc = "sec"
  /\ \E response \in SecResponses, cikResp \in CikResponses, factsResp \in FactsResponses :
       /\ sec_response' = response
       /\ sec_data' = get_sec_financial_data(response, cikResp, factsResp)
       /\ sec_calls' = Append(sec_calls,
                              [meta |-> get_sec_filings_metadata(response),
                               data |-> get_sec_financial_data(response, cikResp, factsResp)])
       /\ requests_made' = requests_made + SecRequests(response, cikResp)
  /\ pc' = "yahoo"
  /\ UNCHANGED <<stock_list, tickers, idx, progress, yahoo_response, yahoo_data,
                 all_raw_data, df_raw, metrics, csv, error, yahoo_calls>>

\* Line 288: yahoo_data = get_yahoo_finance_data(ticker)
FetchYahoo ==
  /\ pc = "yahoo"
  /\ \E response \in YahooResponses :
       /\ yahoo_response' = response
       /\ yahoo_data' = get_yahoo_finance_data(response)
       /\ yahoo_calls' = Append(yahoo_calls,
                                [raised |-> YahooRaises(response),
                                 data |-> get_yahoo_finance_data(response)])
       /\ requests_made' = requests_made + YahooRequests(response)
  /\ pc' = "append"
  /\ UNCHANGED <<stock_list, tickers, idx, progress, sec_response, sec_data,
                 all_raw_data, df_raw, metrics, csv, error, sec_calls>>

\* The mutated loop body: a ticker whose market fetch failed gets no row.
AppendedSkipFailed(rows, ticker, sec_data_, yahoo_data_) ==
  IF yahoo_data_["status"] = YahooSuccess
  THEN Append(rows, raw_entry(ticker, sec_data_, yahoo_data_))
  ELSE rows

\* Lines 291-358: all_raw_data.append(raw_entry)
Appended(rows, ticker, sec_data_, yahoo_data_) ==
  Append(rows, raw_entry(ticker, sec_data_, yahoo_data_))

AppendRow ==
  /\ pc = "append"
  /\ all_raw_data' = Appended(all_raw_data, tickers[idx], sec_data, yahoo_data)
  /\ idx' = idx + 1
  /\ pc' = "loop"
  /\ UNCHANGED <<stock_list, tickers, progress, sec_response, sec_data, yahoo_response,
                 yahoo_data, df_raw, metrics, csv, error, requests_made, sec_calls,
                 yahoo_calls>>

\* Lines 372-385: the three st.metric values.
Summary(df, ts) ==
  [total_tickers |-> Len(ts),
   sec_available |-> CountAvailable(df, ts, "SEC_Status", SecFound),
   yahoo_available |-> CountAvailable(df, ts, "Yahoo_Status", YahooSuccess)]

\* Lines 360-399: the loop is over; the table, the counts and the CSV are shown.
ShowResults ==
  /\ pc = "loop"
  /\ idx > Len(tickers)
  /\ progress' = NoneV
  /\ IF all_raw_data # <<>>
     THEN /\ df_raw' = Some(all_raw_data)
          /\ metrics' = Some(Summary(all_raw_data, tickers))
          /\ csv' = Some(to_csv(all_raw_data))
          /\ UNCHANGED error
     ELSE /\ error' = "no_data"
          /\ UNCHANGED <<df_raw, metrics, csv>>
  /\ pc' = "done"
  /\ UNCHANGED <<stock_list, tickers, idx, sec_response, sec_data, yahoo_response,
                 yahoo_data, all_raw_data, requests_made, sec_calls, yahoo_calls>>

Next ==
  \/ ParseInput
  \/ ClickFetch
  \/ UpdateProgress
  \/ FetchSEC
  \/ FetchYahoo
  \/ AppendRow
  \/ ShowResults

Spec == Init /\ [][Next]_vars

\* The parser alone, over every text of at most MaxLen characters.
NextParse == ParseInput

SpecParse == InitParse /\ [][NextParse]_vars

(***************************************************************************)
(* Properties                                                               *)
(***************************************************************************)
StartsWith(s, prefix) ==
  Len(s) >= Len(prefix) /\ SubSeq(s, 1, Len(prefix)) = prefix

Rows == 1..Len(all_raw_data)

RunCompleted == pc = "done" /\ tickers # <<>>

\* C1: after a completed run the three counts are correct: total tickers is
\* the number of rows, market success is the number of tickers whose market
\* fetch returned the success status, and filings found is the number of
\* tickers whose filing lookup returned the found status.
C1_SummaryCounts ==
  RunCompleted /\ metrics # NoneV =>
    /\ metrics[1].total_tickers = Len(all_raw_data)
    /\ metrics[1].yahoo_available =
         Cardinality({i \in 1..Len(yahoo_calls) : yahoo_calls[i].data["status"] = YahooSuccess})
    /\ metrics[1].sec_available =
         Cardinality({i \in 1..Len(sec_calls) : sec_calls[i].meta.status = SecFound})

IsSep(c) == c \in {",", "\n"}

\* The maximal separator-free stretches i..j of a text (j = i - 1: empty).
Segments(text) ==
  {seg \in (1..(Len(text) + 1)) \X (0..Len(text)) :
     /\ seg[2] >= seg[1] - 1
     /\ \A k \in seg[1]..seg[2] : ~IsSep(Char(text, k))
     /\ seg[1] = 1 \/ IsSep(Char(text, seg[1] - 1))
     /\ seg[2] = Len(text) \/ IsSep(Char(text, seg[2] + 1))}

TokenSet(text) ==
  {Upper(Strip(SubSeq(text, seg[1], seg[2]))) : seg \in Segments(text)} \ {""}

\* C2: the parsed tickers are exactly the non-empty, trimmed, uppercased
\* tokens between newlines and commas of the text, each of them once.
C2_ParserTokens ==
  pc = "idle" =>
    /\ SeqToSet(tickers) = TokenSet(stock_list)
    /\ Len(tickers) = Cardinality(SeqToSet(tickers))

\* A text with a blank, a comma and a newline, in which a duplicate collapsed.
C2_Witness ==
  /\ pc = "idle"
  /\ \E i, j, k \in 1..Len(stock_list) :
       Char(stock_list, i) = " " /\ Char(stock_list, j) = "," /\ Char(stock_list, k) = "\n"
  /\ tickers # <<>>
  /\ Len(ParseList(stock_list)) > Len(tickers)

\* C3: the status recorded for a fetch that failed with an exception has a
\* bounded length, whatever the length of the exception's message, for
\* Yahoo_Status as for SEC_Status.
C3_ErrorStatusBounded ==
  \A i \in Rows :
    /\ yahoo_calls[i].raised # NoneV =>
         Len(all_raw_data[i]["Yahoo_Status"]) <= Len(YahooErrorPrefix) + OuterMsgLimit
    /\ StartsWith(sec_calls[i].meta.status, SecErrorPrefix) =>
         Len(all_raw_data[i]["SEC_Status"]) <= Len(SecErrorPrefix) + OuterMsgLimit

\* C4: when both market-data calls return, the status is success, the price
\* is the live quote if present, else the last daily close if the history is
\* not empty, else null, and the other fields are those of the response.
C4_PriceFallback ==
  Len(yahoo_calls) > 0 /\ yahoo_response.info_raises = NoneV
  /\ yahoo_response.hist_raises = NoneV =>
    /\ yahoo_data["status"] = YahooSuccess
    /\ yahoo_data["current_price"] =
         IF Get(yahoo_response.info, "currentPrice") # NoneV
         THEN Get(yahoo_response.info, "currentPrice")
         ELSE IF yahoo_response.hist # <<>>
         THEN Some(yahoo_response.hist[Len(yahoo_response.hist)])
         ELSE NoneV
    /\ \A i \in 1..Len(YahooInfoMap) :
         yahoo_data[YahooInfoMap[i][1]] = Get(yahoo_response.info, YahooInfoMap[i][2])

\* C5, as stated: every filing-statement column of every row is null.
C5_PlaceholdersAlwaysNull ==
  \A i \in Rows : \A c \in SecColumns : all_raw_data[i][c] = NoneV

\* C5, amended: every filing-statement column but SEC_Total_Assets is null in
\* every row, and SEC_Total_Assets is null in every row whose filing lookup
\* did not return the found status.
C5_PlaceholdersNullButAssets ==
  \A i \in Rows :
    /\ \A c \in SecColumns \ {"SEC_Total_Assets"} : all_raw_data[i][c] = NoneV
    /\ sec_calls[i].meta.status # SecFound => all_raw_data[i]["SEC_Total_Assets"] = NoneV

C5_Witness ==
  \E i \in Rows :
    /\ all_raw_data[i]["SEC_Total_Assets"] # NoneV
    /\ all_raw_data[i]["SEC_Total_Liabilities"] = NoneV

\* C6: every processed ticker has exactly one row, in processing order, the
\* row is made of that ticker's own fetch results only, and a completed run
\* has one row per ticker whatever failed.
C6_OneRowPerTicker ==
  /\ pc = "loop" => Len(all_raw_data) = idx - 1
  /\ \A i \in Rows :
       all_raw_data[i] = raw_entry(tickers[i], sec_calls[i].data, yahoo_calls[i].data)
  /\ RunCompleted =>
       /\ df_raw = Some(all_raw_data)
       /\ Len(all_raw_data) = Len(tickers)

\* A completed run of two tickers: the first failed both fetches, the second
\* succeeded in both.
C6_Witness ==
  /\ RunCompleted
  /\ Len(all_raw_data) = 2
  /\ yahoo_calls[1].raised # NoneV
  /\ StartsWith(sec_calls[1].meta.status, SecErrorPrefix)
  /\ all_raw_data[2]["Yahoo_Status"] = YahooSuccess
  /\ sec_calls[2].meta.status = SecFound

\* C7: a ticker whose market fetch failed has a row, all of whose market
\* columns are null, whose daily-closes flag is false and whose market status
\* is an error status, and it is not counted as a market success.
C7_FailedMarketFetch ==
  /\ \A i \in Rows :
       yahoo_calls[i].raised # NoneV =>
         /\ all_raw_data[i]["Ticker"] = tickers[i]
         /\ \A c \in YahooColumns : all_raw_data[i][c] = NoneV
         /\ all_raw_data[i]["Yahoo_Daily_Closes_Available"] = FALSE
         /\ StartsWith(all_raw_data[i]["Yahoo_Status"], YahooErrorPrefix)
         /\ all_raw_data[i]["Yahoo_Status"] # YahooSuccess
  /\ RunCompleted =>
       /\ Len(all_raw_data) = Len(tickers)
       /\ metrics # NoneV
       /\ metrics[1].yahoo_available =
            Cardinality({i \in Rows : yahoo_calls[i].raised = NoneV})

\* A completed run in which the provider had no data for a symbol (no
\* exception from the library, no quote, no history) and the history call of
\* another failed after the fundamentals had been returned.
C7_Witness ==
  /\ RunCompleted
  /\ \E i \in Rows :
       /\ yahoo_calls[i].raised = Some(IndexErrorMsg)
       /\ all_raw_data[i]["Yahoo_Market_Cap"] = NoneV
  /\ yahoo_response.info = FullInfo
  /\ yahoo_response.hist_raises # NoneV

\* C8: the lookup's status is found exactly when the response is well-formed
\* and has an entry, with date and identifier of the first entry; not-found
\* when it is well-formed without entries; an error message, with null date
\* and identifier, when the transport call raised.
C8_LookupStatus ==
  Len(sec_calls) > 0 =>
    LET r == sec_response
        m == sec_calls[Len(sec_calls)].meta
        wellFormed == r.raises = NoneV /\ r.status_code = HttpOk /\ r.bad_body = NoneV
        hasEntry == wellFormed /\ r.has_key /\ r.filings # <<>>
    IN  /\ m.status = SecFound <=> hasEntry
        /\ hasEntry =>
             /\ m.filing_date = r.filings[1].filingDate
             /\ m.accession_number = r.filings[1].accessionNumber
        /\ wellFormed /\ ~hasEntry => m.status = SecNotFound
        /\ r.raises # NoneV =>
             /\ StartsWith(m.status, SecErrorPrefix)
             /\ m.status \notin {SecFound, SecNotFound}
             /\ m.filing_date = NoneV
             /\ m.accession_number = NoneV

\* A found lookup over a response of two entries.
C8_Witness ==
  /\ Len(sec_calls) > 0
  /\ Len(sec_response.filings) = 2
  /\ sec_calls[Len(sec_calls)].meta.status = SecFound
  /\ sec_calls[Len(sec_calls)].meta.filing_date = Some("2024-11-01")

\* C9: with no ticker parsed, pressing the button reports the input error,
\* issues no request, and shows no table, no counts and no CSV.
C9_EmptyInput ==
  pc = "done" /\ tickers = <<>> =>
    /\ error = "input"
    /\ requests_made = 0
    /\ sec_calls = <<>> /\ yahoo_calls = <<>>
    /\ df_raw = NoneV
    /\ metrics = NoneV
    /\ csv = NoneV

\* The button pressed on a text of separators and blanks only.
C9_Witness ==
  /\ pc = "done"
  /\ tickers = <<>>
  /\ Len(stock_list) > 0
  /\ error = "input"

\* C10: the progress shown never exceeds the fraction of the tickers whose
\* market and filing fetches have completed.
C10_ProgressNotAhead ==
  progress # NoneV =>
    progress[1].num * Len(tickers) <= Len(yahoo_calls) * progress[1].den

====
